---- MODULE Spec2Model ----
(***************************************************************************)
(* Model of src/indexer.rs: the indexing driver index_usdc_transfers and   *)
(* the transfer reconciler process_transaction.                            *)
(*                                                                         *)
(* Spec    : one call of index_usdc_transfers against an RPC endpoint      *)
(*           whose answers are chosen nondeterministically.                *)
(* SpecTx  : process_transaction applied to every transaction of a bounded *)
(*           family of decoded transactions.                               *)
(*                                                                         *)
(* Option<T> is modelled as a sequence of length 0 (None) or 1 (Some).     *)
(* Times are whole seconds.  Token amounts are counted in the smallest     *)
(* step the f64 ui_amount can distinguish, so that amount 3 and amount 2   *)
(* differ by the least possible non-zero delta.                            *)
(***************************************************************************)
EXTENDS Integers, Sequences, FiniteSets

VARIABLES
    wallet, usdc_mint, start_time, end_time,   \* arguments of the call
    pc,              \* position of index_usdc_transfers
    signatures,      \* the answer of the list call
    i,               \* position of the for loop in signatures
    transfers,       \* the accumulator (indexer.rs:41)
    result,          \* what the call returned
    list_calls,      \* number of get_signatures_for_address_with_config calls
    fetched,         \* log of get_transaction calls: signature and answer
    tx, tx_time, tx_signature,   \* arguments of process_transaction (SpecTx)
    tx_pc,           \* position of process_transaction (SpecTx)
    tx_out           \* what process_transaction returned (SpecTx)

vars == << wallet, usdc_mint, start_time, end_time, pc, signatures, i,
           transfers, result, list_calls, fetched,
           tx, tx_time, tx_signature, tx_pc, tx_out >>

driver_vars == << wallet, usdc_mint, start_time, end_time, pc, signatures, i,
                  transfers, result, list_calls, fetched >>

tx_vars == << tx, tx_time, tx_signature, tx_pc, tx_out >>

-----------------------------------------------------------------------------
(* Bounds *)

MaxSigs == 2
MaxTime == 2
MaxPost == 2
MaxPre == 1

-----------------------------------------------------------------------------
(* Option *)

None == << >>

Some(x) == << x >>

IsSome(o) == Len(o) = 1

UnwrapOr(o, d) == IF o = None THEN d ELSE o[1]

Abs(x) == IF x < 0 THEN -x ELSE x

-----------------------------------------------------------------------------
(* Addresses and signatures: a string parses to a key (its position in the *)
(* table) or fails; to_string gives the base58 text of a key back.         *)

AddressTable == << "Wallet", "Other", "Mint", "OtherMint" >>

BadAddress == "not-base58"

PubkeyFromStr(s) ==
    IF \E n \in 1..Len(AddressTable) : AddressTable[n] = s
    THEN Some(CHOOSE n \in 1..Len(AddressTable) : AddressTable[n] = s)
    ELSE None

PubkeyToString(k) == AddressTable[k]

SignatureTable == << "sig1", "sig2", "sig3", "sig4" >>

BadSignature == "not-a-signature"

SignatureFromStr(s) ==
    IF \E n \in 1..Len(SignatureTable) : SignatureTable[n] = s
    THEN Some(CHOOSE n \in 1..Len(SignatureTable) : SignatureTable[n] = s)
    ELSE None

SignatureToString(g) == SignatureTable[g]

\* Utc.timestamp_opt(t, 0).single(): None for a second count chrono cannot
\* represent.  OutOfChronoRange stands for such an i64.
OutOfChronoRange == MaxTime + 2

TimestampOpt(t) == IF t < OutOfChronoRange THEN Some(t) ELSE None

-----------------------------------------------------------------------------
(* process_transaction (indexer.rs:80-147) *)

\* indexer.rs:96.  The closure compares only key.pubkey with the wallet; the
\* signer flag of the account key is not read.
IsSigner(t, wallet_pubkey) ==
    \E n \in 1..Len(t.account_keys) :
        t.account_keys[n].pubkey = PubkeyToString(wallet_pubkey)

\* Mutant of FindPre: the join is on the account index alone.
FindPreByIndexOnly(pre_balances, post_balance) ==
    LET hits == { n \in 1..Len(pre_balances) :
                    pre_balances[n].account_index = post_balance.account_index }
    IN  IF hits = {} THEN None
        ELSE Some(pre_balances[CHOOSE n \in hits : \A m \in hits : n <= m])

\* indexer.rs:105-107: Iterator::find, the first pre-balance entry with the
\* account index and the mint of the post-balance entry.
FindPre(pre_balances, post_balance) ==
    LET hits == { n \in 1..Len(pre_balances) :
                    /\ pre_balances[n].account_index = post_balance.account_index
                    /\ pre_balances[n].mint = post_balance.mint }
    IN  IF hits = {} THEN None
        ELSE Some(pre_balances[CHOOSE n \in hits : \A m \in hits : n <= m])

\* indexer.rs:109-111
PreAmount(pre_balances, post_balance) ==
    LET pre_balance == FindPre(pre_balances, post_balance)
    IN  IF pre_balance = None THEN 0
        ELSE UnwrapOr(pre_balance[1].ui_amount, 0)

\* indexer.rs:112
PostAmount(post_balance) == UnwrapOr(post_balance.ui_amount, 0)

\* indexer.rs:101
MintMatches(post_balance, usdc_mint_pubkey) ==
    post_balance.mint = PubkeyToString(usdc_mint_pubkey)

\* Mutant of BalanceChanged: the equality test is dropped.
BalanceChangedAlways(pre_amount, post_amount) == TRUE

\* indexer.rs:116
BalanceChanged(pre_amount, post_amount) == pre_amount # post_amount

\* indexer.rs:117
TransferAmount(pre_amount, post_amount) == Abs(post_amount - pre_amount)

\* indexer.rs:118-122
TransferTypeOf(pre_amount, post_amount) ==
    IF post_amount > pre_amount THEN "Received" ELSE "Sent"

\* indexer.rs:125
Attributed(is_signer, post_balance, wallet_pubkey) ==
    is_signer \/ post_balance.owner = PubkeyToString(wallet_pubkey)

\* indexer.rs:100-141, one pass of the loop body: the records it pushes.
ProcessPostBalance(pre_balances, post_balance, is_signer, wallet_pubkey, usdc_mint_pubkey, time, signature) ==
    LET pre_amount == PreAmount(pre_balances, post_balance)
        post_amount == PostAmount(post_balance)
    IN  IF ~MintMatches(post_balance, usdc_mint_pubkey) THEN << >>
        ELSE IF ~BalanceChanged(pre_amount, post_amount) THEN << >>
        ELSE IF ~Attributed(is_signer, post_balance, wallet_pubkey) THEN << >>
        ELSE << [ date |-> time,
                  amount |-> TransferAmount(pre_amount, post_amount),
                  transfer_type |-> TransferTypeOf(pre_amount, post_amount),
                  signature |-> SignatureToString(signature) ] >>

\* indexer.rs:100: the for loop over post_balances, from entry k on.
RECURSIVE ProcessBalances(_, _, _, _, _, _, _, _)
ProcessBalances(pre_balances, post_balances, k, is_signer, wallet_pubkey, usdc_mint_pubkey, time, signature) ==
    IF k > Len(post_balances) THEN << >>
    ELSE ProcessPostBalance(pre_balances, post_balances[k], is_signer,
                            wallet_pubkey, usdc_mint_pubkey, time, signature)
         \o ProcessBalances(pre_balances, post_balances, k + 1, is_signer,
                            wallet_pubkey, usdc_mint_pubkey, time, signature)

\* Mutant of ProcessTransaction: a pre-balance entry of the mint without a
\* post-balance entry of its account index is reported as Sent.
RECURSIVE ClosedAccounts(_, _, _, _, _, _)
ClosedAccounts(pre_balances, post_balances, n, usdc_mint_pubkey, time, signature) ==
    IF n > Len(pre_balances) THEN << >>
    ELSE (IF /\ pre_balances[n].mint = PubkeyToString(usdc_mint_pubkey)
             /\ UnwrapOr(pre_balances[n].ui_amount, 0) # 0
             /\ \A k \in 1..Len(post_balances) :
                   post_balances[k].account_index # pre_balances[n].account_index
          THEN << [ date |-> time,
                    amount |-> UnwrapOr(pre_balances[n].ui_amount, 0),
                    transfer_type |-> "Sent",
                    signature |-> SignatureToString(signature) ] >>
          ELSE << >>)
         \o ClosedAccounts(pre_balances, post_balances, n + 1,
                           usdc_mint_pubkey, time, signature)

ProcessTransactionWithClosed(t, wallet_pubkey, usdc_mint_pubkey, time, signature) ==
    IF t.meta = None THEN << >>
    ELSE LET meta == t.meta[1]
             pre_balances == UnwrapOr(meta.pre_token_balances, << >>)
             post_balances == UnwrapOr(meta.post_token_balances, << >>)
         IN  ProcessBalances(pre_balances, post_balances, 1,
                             IsSigner(t, wallet_pubkey),
                             wallet_pubkey, usdc_mint_pubkey, time, signature)
             \o ClosedAccounts(pre_balances, post_balances, 1,
                               usdc_mint_pubkey, time, signature)

\* indexer.rs:80-147
ProcessTransaction(t, wallet_pubkey, usdc_mint_pubkey, time, signature) ==
    IF t.meta = None THEN << >>
    ELSE LET meta == t.meta[1]
             pre_balances == UnwrapOr(meta.pre_token_balances, << >>)
             post_balances == UnwrapOr(meta.post_token_balances, << >>)
         IN  ProcessBalances(pre_balances, post_balances, 1,
                             IsSigner(t, wallet_pubkey),
                             wallet_pubkey, usdc_mint_pubkey, time, signature)

-----------------------------------------------------------------------------
(* The decoded transactions process_transaction is applied to in SpecTx.   *)

AccountIndexes == {0, 1}

PostAmounts == { None, Some(2), Some(3) }

PreAmounts == { None, Some(3) }

Owners == { "Wallet", "Other" }

\* An entry of another mint is skipped whatever its owner and amount; one
\* such entry stands for them.
PostEntries ==
    [ account_index : AccountIndexes, mint : {"Mint"},
      owner : Owners, ui_amount : PostAmounts ]
    \cup { [ account_index |-> 0, mint |-> "OtherMint",
             owner |-> "Wallet", ui_amount |-> Some(3) ] }

PreEntries ==
    [ account_index : AccountIndexes, mint : {"Mint"}, ui_amount : PreAmounts ]
    \cup { [ account_index |-> 0, mint |-> "OtherMint", ui_amount |-> Some(3) ] }

\* The first account key of a transaction is its fee payer, a signer.
KeyLists ==
    { << [pubkey |-> "Other", signer |-> TRUE] >>,
      << [pubkey |-> "Other", signer |-> TRUE],
         [pubkey |-> "Wallet", signer |-> FALSE] >>,
      << [pubkey |-> "Wallet", signer |-> TRUE],
         [pubkey |-> "Other", signer |-> FALSE] >> }

Tables(S, n) == UNION { [1..m -> S] : m \in 0..n }

OptionOf(S) == { None } \cup { Some(x) : x \in S }

Metas ==
    [ pre_token_balances : OptionOf(Tables(PreEntries, MaxPre)),
      post_token_balances : OptionOf(Tables(PostEntries, MaxPost)) ]

Transactions == [ meta : OptionOf(Metas), account_keys : KeyLists ]

-----------------------------------------------------------------------------
(* The RPC endpoint's answers in Spec.                                     *)

Ok(v) == [ ok |-> TRUE, value |-> v ]

RpcError == [ ok |-> FALSE, value |-> << >> ]

BlockTimes == OptionOf(0..OutOfChronoRange)

\* The list call's answers: at most MaxSigs entries; the k-th entry carries
\* the k-th signature of the table, or text that is no signature.
SignatureLists ==
    UNION { { [ k \in 1..n |->
                  [ signature |-> IF bad[k] THEN BadSignature
                                            ELSE SignatureTable[k],
                    block_time |-> times[k] ] ] :
              times \in [1..n -> BlockTimes], bad \in [1..n -> BOOLEAN] } :
            n \in 0..MaxSigs }

FeePayer(a, b) ==
    << [pubkey |-> a, signer |-> TRUE], [pubkey |-> b, signer |-> FALSE] >>

\* Pruned ledger entry: no metadata.
TxNoMeta == [ meta |-> None, account_keys |-> FeePayer("Wallet", "Other") ]

\* Account index 3 of the wallet goes from 100 to 150.
TxReceived ==
    [ meta |-> Some([
        pre_token_balances |-> Some(<<
            [account_index |-> 3, mint |-> "Mint", ui_amount |-> Some(100)] >>),
        post_token_balances |-> Some(<<
            [account_index |-> 3, mint |-> "Mint", owner |-> "Wallet",
             ui_amount |-> Some(150)] >>) ]),
      account_keys |-> FeePayer("Other", "Wallet") ]

\* Two token accounts of the wallet: index 2 is created and funded, index 1
\* is drawn down; an account of another mint changes too.
TxTwoAccounts ==
    [ meta |-> Some([
        pre_token_balances |-> Some(<<
            [account_index |-> 1, mint |-> "Mint", ui_amount |-> Some(5)],
            [account_index |-> 4, mint |-> "OtherMint", ui_amount |-> Some(1)] >>),
        post_token_balances |-> Some(<<
            [account_index |-> 2, mint |-> "Mint", owner |-> "Wallet",
             ui_amount |-> Some(4)],
            [account_index |-> 1, mint |-> "Mint", owner |-> "Wallet",
             ui_amount |-> Some(2)],
            [account_index |-> 4, mint |-> "OtherMint", owner |-> "Wallet",
             ui_amount |-> Some(9)] >>) ]),
      account_keys |-> FeePayer("Wallet", "Other") ]

\* The wallet's balance of the mint is the same before and after.
TxUnchanged ==
    [ meta |-> Some([
        pre_token_balances |-> Some(<<
            [account_index |-> 1, mint |-> "Mint", ui_amount |-> Some(7)] >>),
        post_token_balances |-> Some(<<
            [account_index |-> 1, mint |-> "Mint", owner |-> "Wallet",
             ui_amount |-> Some(7)] >>) ]),
      account_keys |-> FeePayer("Wallet", "Other") ]

DriverTransactions == { TxNoMeta, TxReceived, TxTwoAccounts, TxUnchanged }

-----------------------------------------------------------------------------
(* index_usdc_transfers (indexer.rs:13-78) *)

Pending == [ kind |-> "Pending", value |-> << >>, err |-> "" ]

\* indexer.rs:77
Return(v) == [ kind |-> "Ok", value |-> v, err |-> "" ]

\* Mutant of Abort: the error is swallowed and the records accumulated so far
\* are delivered.
AbortPartial(e) == [ kind |-> "Err", value |-> transfers, err |-> e ]

\* The ? operator: the function returns the error and nothing else.
Abort(e) == [ kind |-> "Err", value |-> << >>, err |-> e ]

\* Mutant of AddressesParse: the mint is not parsed before the list call.
AddressesParseWalletOnly(w, m) == PubkeyFromStr(w) # None

\* indexer.rs:20-21
AddressesParse(w, m) == PubkeyFromStr(w) # None /\ PubkeyFromStr(m) # None

wallet_pubkey == UnwrapOr(PubkeyFromStr(wallet), 0)

usdc_mint_pubkey == UnwrapOr(PubkeyFromStr(usdc_mint), 0)

\* Mutant of BlockTime: a missing block time is an error.
BlockTimeRequired(sig_info) ==
    IF sig_info.block_time = None THEN RpcError
    ELSE IF TimestampOpt(sig_info.block_time[1]) = None THEN RpcError
    ELSE Ok(TimestampOpt(sig_info.block_time[1]))

\* indexer.rs:45-52: Ok(None) without a block time, Ok(Some(t)) with one
\* chrono can represent, an error otherwise.
BlockTime(sig_info) ==
    IF sig_info.block_time = None THEN Ok(None)
    ELSE IF TimestampOpt(sig_info.block_time[1]) = None THEN RpcError
    ELSE Ok(TimestampOpt(sig_info.block_time[1]))

\* Mutant of InRange: the lower end of the window is exclusive.
InRangeExclusive(time, start, end) == ~(time <= start \/ time > end)

\* indexer.rs:55, negated
InRange(time, start, end) == ~(time < start \/ time > end)

\* Mutant of Extend: new records go to the front.
ExtendFront(acc, records) == records \o acc

\* indexer.rs:70, Vec::extend
Extend(acc, records) == acc \o records

\* indexer.rs:20-21
ParseAddresses ==
    /\ pc = "parse"
    /\ IF AddressesParse(wallet, usdc_mint)
       THEN pc' = "list" /\ UNCHANGED result
       ELSE pc' = "done" /\ result' = Abort("invalid address")
    /\ UNCHANGED << wallet, usdc_mint, start_time, end_time, signatures, i,
                    transfers, list_calls, fetched >>
    /\ UNCHANGED tx_vars

\* indexer.rs:24-41, the list call answers with a list
ListSignaturesOk ==
    /\ pc = "list"
    /\ \E s \in SignatureLists : signatures' = s
    /\ list_calls' = list_calls + 1
    /\ i' = 1
    /\ transfers' = << >>
    /\ pc' = "loop"
    /\ UNCHANGED << wallet, usdc_mint, start_time, end_time, result, fetched >>
    /\ UNCHANGED tx_vars

\* indexer.rs:24-38, the list call fails
ListSignaturesErr ==
    /\ pc = "list"
    /\ list_calls' = list_calls + 1
    /\ pc' = "done"
    /\ result' = Abort("list")
    /\ UNCHANGED << wallet, usdc_mint, start_time, end_time, signatures, i,
                    transfers, fetched >>
    /\ UNCHANGED tx_vars

InLoop == pc = "loop" /\ i <= Len(signatures)

\* indexer.rs:44, Signature::from_str fails
SignatureAbort ==
    /\ InLoop
    /\ SignatureFromStr(signatures[i].signature) = None
    /\ pc' = "done"
    /\ result' = Abort("signature")
    /\ UNCHANGED << wallet, usdc_mint, start_time, end_time, signatures, i,
                    transfers, list_calls, fetched >>
    /\ UNCHANGED tx_vars

\* indexer.rs:45-52, the block time is no timestamp
BlockTimeAbort ==
    /\ InLoop
    /\ SignatureFromStr(signatures[i].signature) # None
    /\ ~BlockTime(signatures[i]).ok
    /\ pc' = "done"
    /\ result' = Abort("Invalid timestamp")
    /\ UNCHANGED << wallet, usdc_mint, start_time, end_time, signatures, i,
                    transfers, list_calls, fetched >>
    /\ UNCHANGED tx_vars

\* indexer.rs:71-73
SkipNoBlockTime ==
    /\ InLoop
    /\ SignatureFromStr(signatures[i].signature) # None
    /\ BlockTime(signatures[i]).ok
    /\ BlockTime(signatures[i]).value = None
    /\ i' = i + 1
    /\ UNCHANGED << wallet, usdc_mint, start_time, end_time, pc, signatures,
                    transfers, result, list_calls, fetched >>
    /\ UNCHANGED tx_vars

\* indexer.rs:54-59
SkipOutOfRange ==
    /\ InLoop
    /\ SignatureFromStr(signatures[i].signature) # None
    /\ BlockTime(signatures[i]).ok
    /\ BlockTime(signatures[i]).value # None
    /\ ~InRange(BlockTime(signatures[i]).value[1], start_time, end_time)
    /\ i' = i + 1
    /\ UNCHANGED << wallet, usdc_mint, start_time, end_time, pc, signatures,
                    transfers, result, list_calls, fetched >>
    /\ UNCHANGED tx_vars

\* Mutant of CanFetch: the transaction is fetched before the window test.
CanFetchUnfiltered ==
    /\ pc = "loop" /\ i <= Len(signatures)
    /\ SignatureFromStr(signatures[i].signature) # None
    /\ BlockTime(signatures[i]).ok
    /\ BlockTime(signatures[i]).value # None

CanFetch ==
    /\ InLoop
    /\ SignatureFromStr(signatures[i].signature) # None
    /\ BlockTime(signatures[i]).ok
    /\ BlockTime(signatures[i]).value # None
    /\ InRange(BlockTime(signatures[i]).value[1], start_time, end_time)

\* indexer.rs:61-70, get_transaction answers with a transaction
FetchOk ==
    /\ CanFetch
    /\ \E t \in DriverTransactions :
        LET signature == SignatureFromStr(signatures[i].signature)[1]
            time == BlockTime(signatures[i]).value[1]
        IN  /\ fetched' = Append(fetched, [ signature |-> signature,
                                            answer |-> Ok(t) ])
            /\ transfers' = Extend(transfers,
                   ProcessTransaction(t, wallet_pubkey, usdc_mint_pubkey,
                                      time, signature))
    /\ i' = i + 1
    /\ UNCHANGED << wallet, usdc_mint, start_time, end_time, pc, signatures,
                    result, list_calls >>
    /\ UNCHANGED tx_vars

\* indexer.rs:62-68, get_transaction fails
FetchErr ==
    /\ CanFetch
    /\ fetched' = Append(fetched,
           [ signature |-> SignatureFromStr(signatures[i].signature)[1],
             answer |-> RpcError ])
    /\ pc' = "done"
    /\ result' = Abort("fetch")
    /\ UNCHANGED << wallet, usdc_mint, start_time, end_time, signatures, i,
                    transfers, list_calls >>
    /\ UNCHANGED tx_vars

\* indexer.rs:76-77
ReturnTransfers ==
    /\ pc = "loop"
    /\ i > Len(signatures)
    /\ pc' = "done"
    /\ result' = Return(transfers)
    /\ UNCHANGED << wallet, usdc_mint, start_time, end_time, signatures, i,
                    transfers, list_calls, fetched >>
    /\ UNCHANGED tx_vars

Init ==
    /\ wallet \in { "Wallet", BadAddress }
    /\ usdc_mint \in { "Mint", BadAddress }
    /\ start_time \in 1..MaxTime
    /\ end_time \in 1..MaxTime
    /\ pc = "parse"
    /\ signatures = << >>
    /\ i = 1
    /\ transfers = << >>
    /\ result = Pending
    /\ list_calls = 0
    /\ fetched = << >>
    /\ tx = TxNoMeta
    /\ tx_time = 0
    /\ tx_signature = 1
    /\ tx_pc = "idle"
    /\ tx_out = << >>

Next ==
    \/ ParseAddresses
    \/ ListSignaturesOk
    \/ ListSignaturesErr
    \/ SignatureAbort
    \/ BlockTimeAbort
    \/ SkipNoBlockTime
    \/ SkipOutOfRange
    \/ FetchOk
    \/ FetchErr
    \/ ReturnTransfers

Spec == Init /\ [][Next]_vars

-----------------------------------------------------------------------------
(* SpecTx: process_transaction on every transaction of Transactions, for   *)
(* the wallet "Wallet" and the mint "Mint".                                *)

\* indexer.rs:80-147
Reconcile ==
    /\ tx_pc = "call"
    /\ tx_out' = ProcessTransaction(tx, wallet_pubkey, usdc_mint_pubkey,
                                    tx_time, tx_signature)
    /\ tx_pc' = "returned"
    /\ UNCHANGED << tx, tx_time, tx_signature >>
    /\ UNCHANGED driver_vars

TxInit ==
    /\ wallet = "Wallet"
    /\ usdc_mint = "Mint"
    /\ start_time = 1
    /\ end_time = 1
    /\ pc = "idle"
    /\ signatures = << >>
    /\ i = 1
    /\ transfers = << >>
    /\ result = Pending
    /\ list_calls = 0
    /\ fetched = << >>
    /\ tx \in Transactions
    /\ tx_time = 1
    /\ tx_signature = 1
    /\ tx_pc = "call"
    /\ tx_out = << >>

TxNext == Reconcile

SpecTx == TxInit /\ [][TxNext]_vars

-----------------------------------------------------------------------------
(* Properties of index_usdc_transfers, checked under Spec.                 *)
(* The k-th entry of the list carries the k-th signature, so a fetch of    *)
(* signature k is a fetch for list position k.  Entries 1..i-1 are the     *)
(* ones the loop has gone past.                                            *)

HasTime(k) == signatures[k].block_time # None

TimeAt(k) == signatures[k].block_time[1]

InWindow(k) ==
    HasTime(k) /\ start_time <= TimeAt(k) /\ TimeAt(k) <= end_time

WasFetched(k) == \E m \in 1..Len(fetched) : fetched[m].signature = k

FetchedSignatures == [ m \in 1..Len(fetched) |-> fetched[m].signature ]

\* The list positions up to n whose block time is in the window, in order.
RECURSIVE InWindowUpTo(_)
InWindowUpTo(n) ==
    IF n = 0 THEN << >>
    ELSE IF InWindow(n) THEN Append(InWindowUpTo(n - 1), n)
    ELSE InWindowUpTo(n - 1)

\* The records of the m-th fetched transaction.
RecordsOfFetch(m) ==
    ProcessTransaction(fetched[m].answer.value, wallet_pubkey,
                       usdc_mint_pubkey, TimeAt(fetched[m].signature),
                       fetched[m].signature)

\* The records of the first m fetched transactions, in fetch order.
RECURSIVE RecordsUpTo(_)
RecordsUpTo(m) ==
    IF m = 0 THEN << >> ELSE RecordsUpTo(m - 1) \o RecordsOfFetch(m)

\* C2: every record's timestamp lies in [start_time, end_time], both ends
\* inclusive: a signature stamped exactly at start_time or at end_time is
\* fetched, one stamped a second before start_time or after end_time is not.
C2_TimestampsInWindow ==
    /\ \A n \in 1..Len(transfers) :
          start_time <= transfers[n].date /\ transfers[n].date <= end_time
    /\ \A n \in 1..Len(result.value) :
          start_time <= result.value[n].date /\ result.value[n].date <= end_time
    /\ \A k \in 1..(i - 1) :
          HasTime(k) =>
            /\ (start_time <= end_time /\ TimeAt(k) \in {start_time, end_time})
                  => WasFetched(k)
            /\ (TimeAt(k) = start_time - 1 \/ TimeAt(k) = end_time + 1)
                  => ~WasFetched(k)

\* C2 witness: a successful call returned a record stamped exactly at
\* start_time and one stamped exactly at end_time of a proper interval.
C2_Witness ==
    /\ result.kind = "Ok"
    /\ start_time < end_time
    /\ \E n \in 1..Len(result.value) : result.value[n].date = start_time
    /\ \E n \in 1..Len(result.value) : result.value[n].date = end_time

\* C3: get_transaction is never called for a signature without a block time
\* or with one outside the window; there is at most one list call, it comes
\* before any fetch, and the fetches are exactly the in-window signatures
\* gone past so far, one each, in list order.
C3_FetchOnlyInWindow ==
    /\ list_calls <= 1
    /\ fetched # << >> => list_calls = 1
    /\ \A m \in 1..Len(fetched) : InWindow(fetched[m].signature)
    /\ pc = "loop" => FetchedSignatures = InWindowUpTo(i - 1)
    /\ result.kind = "Ok" =>
          /\ list_calls = 1
          /\ FetchedSignatures = InWindowUpTo(Len(signatures))

\* C3 witness: a successful call that skipped an out-of-window signature
\* and fetched an in-window one.
C3_Witness ==
    /\ result.kind = "Ok"
    /\ Len(fetched) = 1
    /\ \E k \in 1..Len(signatures) : HasTime(k) /\ ~InWindow(k)

\* C4: an error of the list call or of a fetch ends the call: the failed
\* fetch is the last one, nothing further can happen, and the result is the
\* error alone, without the records accumulated so far; a successful result
\* holds the records of every in-window signature.
C4_ErrorIsTerminal ==
    /\ \A m \in 1..Len(fetched) :
          ~fetched[m].answer.ok =>
              m = Len(fetched) /\ pc = "done" /\ result.kind = "Err"
    /\ (list_calls = 1 /\ pc = "done" /\ signatures = << >> /\ result.kind = "Err")
          => fetched = << >>
    /\ result.kind = "Err" =>
          /\ result.value = << >>
          /\ pc = "done"
          /\ ~ENABLED Next
    /\ result.kind = "Ok" =>
          /\ \A m \in 1..Len(fetched) : fetched[m].answer.ok
          /\ Len(fetched) = Len(InWindowUpTo(Len(signatures)))
          /\ result.value = RecordsUpTo(Len(fetched))

\* C4 witness: a fetch failed after earlier signatures had produced records.
C4_Witness ==
    /\ result.kind = "Err"
    /\ fetched # << >>
    /\ ~fetched[Len(fetched)].answer.ok
    /\ transfers # << >>

\* C5: with a wallet or mint address that does not parse, no list call and
\* no fetch is ever issued, and the call ends with the address error.
C5_InvalidAddressNoIO ==
    (wallet = BadAddress \/ usdc_mint = BadAddress) =>
        /\ list_calls = 0
        /\ fetched = << >>
        /\ pc \in { "parse", "done" }
        /\ pc = "done" => result = Abort("invalid address")

\* C5 witness: the wallet parses, the mint does not, and the call has failed.
C5_Witness ==
    /\ wallet = "Wallet"
    /\ usdc_mint = BadAddress
    /\ pc = "done"
    /\ result.kind = "Err"

\* The records of the first m fetched transactions that carry metadata.
RECURSIVE RecordsWithMetaUpTo(_)
RecordsWithMetaUpTo(m) ==
    IF m = 0 THEN << >>
    ELSE IF fetched[m].answer.ok /\ fetched[m].answer.value.meta # None
         THEN RecordsWithMetaUpTo(m - 1) \o RecordsOfFetch(m)
         ELSE RecordsWithMetaUpTo(m - 1)

\* C6: a signature without a block time is stepped over and a fetched
\* transaction without metadata adds nothing; neither ends the call, the
\* loop goes on to the next signature, and the records are those of the
\* fetched transactions that carry metadata, as if the others were not
\* in the list.
C6_MissingDataNotFatal ==
    /\ (InLoop /\ signatures[i].signature # BadSignature /\ ~HasTime(i)) =>
          /\ ENABLED SkipNoBlockTime
          /\ ~ENABLED BlockTimeAbort
          /\ ~ENABLED SignatureAbort
    /\ \A m \in 1..Len(fetched) :
          fetched[m].answer.ok => i > fetched[m].signature
    /\ (result.kind = "Err" /\ i <= Len(signatures)) =>
          \/ signatures[i].signature = BadSignature
          \/ HasTime(i) /\ TimeAt(i) = OutOfChronoRange
          \/ /\ fetched # << >>
             /\ fetched[Len(fetched)].signature = i
             /\ ~fetched[Len(fetched)].answer.ok
    /\ pc = "loop" => transfers = RecordsWithMetaUpTo(Len(fetched))
    /\ result.kind = "Ok" =>
          /\ i = Len(signatures) + 1
          /\ result.value = RecordsWithMetaUpTo(Len(fetched))

\* C6 witness: a successful call whose list held a signature without a
\* block time followed by a signature whose transaction had no metadata.
C6_Witness ==
    /\ result.kind = "Ok"
    /\ Len(signatures) = 2
    /\ ~HasTime(1)
    /\ Len(fetched) = 1
    /\ fetched[1].signature = 2
    /\ fetched[1].answer.value.meta = None

SignaturePosition(record) == SignatureFromStr(record.signature)[1]

InListOrder(records) ==
    /\ \A a, b \in 1..Len(records) :
          a < b => SignaturePosition(records[a]) <= SignaturePosition(records[b])
    /\ \A a, b, c \in 1..Len(records) :
          (a < b /\ b < c /\ records[a].signature = records[c].signature)
              => records[b].signature = records[a].signature

\* C9: after any prefix of the list the accumulator is the concatenation,
\* in list order, of the records of the transactions fetched so far, each
\* in the order process_transaction produced them; records of one signature
\* are contiguous and nothing is re-sorted by timestamp.
C9_ListOrderConcatenation ==
    /\ \A m, n \in 1..Len(fetched) :
          m < n => fetched[m].signature < fetched[n].signature
    /\ pc = "loop" => transfers = RecordsUpTo(Len(fetched))
    /\ InListOrder(transfers)
    /\ result.kind = "Ok" =>
          /\ result.value = RecordsUpTo(Len(fetched))
          /\ InListOrder(result.value)

\* C9 witness: a successful call returned three records of two signatures
\* whose timestamps are not in ascending order.
C9_Witness ==
    /\ result.kind = "Ok"
    /\ Len(result.value) = 3
    /\ result.value[1].signature # result.value[3].signature
    /\ result.value[1].date > result.value[3].date

-----------------------------------------------------------------------------
(* Properties of process_transaction, checked under SpecTx, where the      *)
(* wallet is "Wallet" and the requested mint is "Mint".                    *)

TxPre ==
    IF tx.meta = None THEN << >>
    ELSE UnwrapOr(tx.meta[1].pre_token_balances, << >>)

TxPost ==
    IF tx.meta = None THEN << >>
    ELSE UnwrapOr(tx.meta[1].post_token_balances, << >>)

OfMint(k) == TxPost[k].mint = "Mint"

\* The pre-balance positions holding the account index and mint of post
\* entry k.
Joined(k) ==
    { n \in 1..Len(TxPre) :
        /\ TxPre[n].account_index = TxPost[k].account_index
        /\ TxPre[n].mint = TxPost[k].mint }

\* The amount before the transaction of the account of post entry k: zero
\* without a pre entry; the first one when the table lists the account twice.
JoinedPreAmount(k) ==
    IF Joined(k) = {} THEN 0
    ELSE LET n == CHOOSE n \in Joined(k) : \A m \in Joined(k) : n <= m
         IN  IF TxPre[n].ui_amount = None THEN 0 ELSE TxPre[n].ui_amount[1]

Delta(k) ==
    (IF TxPost[k].ui_amount = None THEN 0 ELSE TxPost[k].ui_amount[1])
        - JoinedPreAmount(k)

\* The post entries of the mint whose amount changed.
Candidates == { k \in 1..Len(TxPost) : OfMint(k) /\ Delta(k) # 0 }

WalletOwns(k) == TxPost[k].owner = "Wallet"

\* The wallet is among the account keys and signed the transaction.
WalletSigns ==
    \E n \in 1..Len(tx.account_keys) :
        tx.account_keys[n].pubkey = "Wallet" /\ tx.account_keys[n].signer

RecordOf(k) ==
    [ date |-> tx_time,
      amount |-> IF Delta(k) > 0 THEN Delta(k) ELSE 0 - Delta(k),
      transfer_type |-> IF Delta(k) > 0 THEN "Received" ELSE "Sent",
      signature |-> SignatureTable[tx_signature] ]

\* One record per post entry of S, in post-balance table order, from k on.
RECURSIVE RecordsOfEntries(_, _)
RecordsOfEntries(S, k) ==
    IF k > Len(TxPost) THEN << >>
    ELSE (IF k \in S THEN << RecordOf(k) >> ELSE << >>)
         \o RecordsOfEntries(S, k + 1)

\* C1: a changed post entry of the mint gives a record only if the wallet
\* owns the entry or is among the account keys as a signer.
C1_RecordOnlyIfOwnerOrSigner ==
    tx_pc = "returned" =>
        \E S \in SUBSET { k \in Candidates : WalletOwns(k) \/ WalletSigns } :
            tx_out = RecordsOfEntries(S, 1)

\* C7: the records are those of changed post entries of the mint, in table
\* order, each with the pre amount joined on account index and mint,
\* Received when the amount grew, Sent when it shrank, and the absolute
\* difference as amount; every changed entry the wallet owns or signed for
\* has its record.
C7_IndexKeyedJoin ==
    tx_pc = "returned" =>
        LET changed == Candidates
            required == { k \in changed : WalletOwns(k) \/ WalletSigns }
        IN  \E others \in SUBSET (changed \ required) :
                tx_out = RecordsOfEntries(required \cup others, 1)

\* C7 witness: two records of opposite direction; the Sent one comes from
\* the second post entry, joined to the first pre entry.
C7_Witness ==
    /\ tx_pc = "returned"
    /\ Len(tx_out) = 2
    /\ tx_out[1].transfer_type = "Received"
    /\ tx_out[2].transfer_type = "Sent"
    /\ Len(TxPre) = 1
    /\ Joined(2) = {1}

C10_RecordsFromPostOnly ==
    tx_pc = "returned" =>
        Len(tx_out) <= Cardinality({ k \in 1..Len(TxPost) : OfMint(k) })

\* C10 witness: the wallet signed, an account of the mint held tokens before
\* the transaction and has no post-balance entry, and there is no record.
C10_Witness ==
    /\ tx_pc = "returned"
    /\ WalletSigns
    /\ \E n \in 1..Len(TxPre) :
          /\ TxPre[n].mint = "Mint"
          /\ TxPre[n].ui_amount = Some(3)
          /\ \A k \in 1..Len(TxPost) :
                TxPost[k].account_index # TxPre[n].account_index
    /\ tx_out = << >>

====
